---------------------------- MODULE Spec2Model ----------------------------
(***************************************************************************)
(* redis-promise-lock: a lock kept as one record of a key-value store.     *)
(* src/src/lock.ts holds two variants of the Lock class (lines 1-129 and   *)
(* lines 130-258); the variable `version` says which one is running.       *)
(* Callers run acquireLock and releaseLock concurrently on one shared Lock *)
(* instance; every store round-trip is two steps (the store processes the  *)
(* command, the caller resumes on the reply) and the delay between two     *)
(* attempts is a timer.                                                    *)
(***************************************************************************)
EXTENDS Integers, Sequences, FiniteSets, TLC

(***************************************************************************)
(* Bounds of the model.                                                    *)
(***************************************************************************)
\* the largest retryLimit a caller supplies
MaxRetry == 2
\* the largest ttl (seconds) a caller supplies
MaxTtl == 1
\* the store's clock runs from 0 to MaxTime
MaxTime == 1
\* calls the callers start during one behaviour
MaxCalls == 2
\* entries one call may leave in the call log
MaxLog == 24
\* calls the callers start during one behaviour of SpecRace
MaxRaceCalls == 3

Callers == {"c1", "c2"}
LockNames == {"a", "b"}

(***************************************************************************)
(* JavaScript values, as far as the code looks at them: typeof, the number *)
(* or the string.                                                          *)
(***************************************************************************)
Undef == [t |-> "undefined", n |-> 0, s |-> ""]
Null == [t |-> "object", n |-> 0, s |-> ""]
Num(n) == [t |-> "number", n |-> n, s |-> ""]
Str(s) == [t |-> "string", n |-> 0, s |-> s]

\* what `x || y` and `!x` test
Truthy(x) ==
    CASE x.t = "number" -> x.n # 0
      [] x.t = "string" -> x.s # ""
      [] OTHER -> FALSE

\* x || y
OrElse(x, y) == IF Truthy(x) THEN x ELSE y

\* x !== undefined ? x : y
IfDefined(x, y) == IF x.t # "undefined" THEN x ELSE y

packageName == "redis-promise-lock"

defaultRetryLimit == 10
defaultTtl == 3
defaultRetryDelay(v) == IF v = 1 THEN 1000 ELSE 100

BuiltinDefaults(v) ==
    [retryLimit |-> Num(defaultRetryLimit),
     retryDelay |-> Num(defaultRetryDelay(v)),
     ttl |-> Num(defaultTtl)]

Opt(rl, rd, tt) == [retryLimit |-> rl, retryDelay |-> rd, ttl |-> tt]
\* {} : no option supplied
NoOptions == Opt(Undef, Undef, Undef)

(***************************************************************************)
(* getOptions: merge, then validate.  The result is the option set or the  *)
(* name of the field whose check threw.                                    *)
(***************************************************************************)
\* an omitted field left as it is
MergeTakesGiven(v, given, dflt) == given

MergeOption(v, given, dflt) ==
    IF v = 1 THEN OrElse(given, dflt) ELSE IfDefined(given, dflt)

MergeOptions(v, defaults, given) ==
    [retryLimit |-> MergeOption(v, given.retryLimit, defaults.retryLimit),
     retryDelay |-> MergeOption(v, given.retryDelay, defaults.retryDelay),
     ttl |-> MergeOption(v, given.ttl, defaults.ttl)]

IsPositiveNumber(x) == x.t = "number" /\ x.n > 0
IsNonNegativeNumber(x) == x.t = "number" /\ x.n >= 0

getOptions(v, defaults, given) ==
    LET options == MergeOptions(v, defaults, given) IN
    IF ~IsPositiveNumber(options.retryLimit)
      THEN [ok |-> FALSE, err |-> "retryLimit", options |-> options]
    ELSE IF ~IsPositiveNumber(options.retryDelay)
      THEN [ok |-> FALSE, err |-> "retryDelay", options |-> options]
    ELSE IF ~IsNonNegativeNumber(options.ttl)
      THEN [ok |-> FALSE, err |-> "ttl", options |-> options]
    ELSE [ok |-> TRUE, err |-> "", options |-> options]

(***************************************************************************)
(* getRedisKey: both variants reject everything but a non-empty string.    *)
(***************************************************************************)
\* only the type looked at
StringLockName(v, lockName) == lockName.t = "string"

ValidLockName(v, lockName) ==
    IF v = 1 THEN Truthy(lockName) /\ lockName.t = "string"
    ELSE lockName.t = "string" /\ lockName.s # ""

\* the lock name left out of the key
PrefixAlone(v, lockName) ==
    [ok |-> ValidLockName(v, lockName), key |-> packageName \o ":"]

getRedisKey(v, lockName) ==
    IF ValidLockName(v, lockName)
      THEN [ok |-> TRUE, key |-> packageName \o ":" \o lockName.s]
      ELSE [ok |-> FALSE, key |-> ""]

(***************************************************************************)
(* The constructor.  Variant 1 takes each option with `||` and validates   *)
(* nothing; variant 2 runs getOptions on the built-in defaults.            *)
(***************************************************************************)
ClientMissing(v, redisClient) ==
    IF v = 1 THEN redisClient \in {"undefined", "null"}
    ELSE redisClient = "undefined"

Construct(v, redisClient, options) ==
    IF ClientMissing(v, redisClient)
      THEN [ok |-> FALSE, err |-> "redisClient", defaults |-> BuiltinDefaults(v)]
    ELSE IF v = 1
      THEN [ok |-> TRUE, err |-> "",
            defaults |-> [retryLimit |-> OrElse(options.retryLimit, Num(defaultRetryLimit)),
                          retryDelay |-> OrElse(options.retryDelay, Num(defaultRetryDelay(v))),
                          ttl |-> OrElse(options.ttl, Num(defaultTtl))]]
    ELSE LET r == getOptions(v, BuiltinDefaults(v), options) IN
         IF r.ok THEN [ok |-> TRUE, err |-> "", defaults |-> r.options]
         ELSE [ok |-> FALSE, err |-> r.err, defaults |-> BuiltinDefaults(v)]


(***************************************************************************)
(* Inputs the callers draw from.                                           *)
(***************************************************************************)
Clients == {"valid", "null", "undefined"}

ValidCtorChoices == {Opt(Num(1), Num(10), Num(0))}

CtorChoices ==
    ValidCtorChoices
      \cup {NoOptions,
            Opt(Num(MaxRetry), Undef, Num(MaxTtl)),
            Opt(Num(-1), Undef, Undef),
            Opt(Str("NaN"), Undef, Undef),
            Opt(Undef, Num(0), Undef),
            Opt(Undef, Undef, Num(-1))}

ValidAcquireInputs ==
    {<<Str("a"), NoOptions>>,
     <<Str("a"), Opt(Num(MaxRetry), Undef, Num(MaxTtl))>>,
     <<Str("b"), NoOptions>>}

AcquireInputs ==
    ValidAcquireInputs
      \cup {<<Str("a"), Opt(Undef, Undef, Num(0))>>,
            <<Str("a"), Opt(Undef, Num(20), Undef)>>,
            <<Str("a"), Opt(Num(-1), Undef, Undef)>>,
            <<Str("a"), Opt(Str("NaN"), Undef, Undef)>>,
            <<Str("a"), Opt(Undef, Num(0), Undef)>>,
            <<Str("a"), Opt(Undef, Undef, Num(-1))>>,
            <<Str(""), NoOptions>>,
            <<Num(6969), NoOptions>>,
            <<Undef, NoOptions>>}

\* an invalid lock name together with an invalid option
AcquireInputsBothInvalid == {<<Str(""), Opt(Num(-1), Undef, Undef)>>}

\* the options getOptions is called with on its own
PreviewInputs ==
    {i[2] : i \in AcquireInputs}
      \cup {Opt(Num(2), Num(20), Num(0)),
            Opt(Null, Undef, Undef),
            Opt(Undef, Str(""), Undef),
            Opt(Undef, Undef, Str("1")),
            Opt(Num(-1), Num(0), Num(-1))}

ValidReleaseInputs == {Str(n) : n \in LockNames}

ReleaseInputs == ValidReleaseInputs \cup {Str(""), Num(6969), Undef}

(***************************************************************************)
(* The store: one record per key.  expireAt = 0 is a record without an     *)
(* expiry; `by` names the call whose setNX created the record.             *)
(***************************************************************************)
StoreKeys == {packageName \o ":" \o n : n \in LockNames \cup {""}} \cup LockNames

NoCall == <<"", 0>>
Absent == [present |-> FALSE, payload |-> 0, expireAt |-> 0, by |-> NoCall]

VARIABLES
    version,      \* 1 or 2: the variant of the Lock class
    inst,         \* "none", "ready" or "failed": the shared Lock instance
    client,       \* the redisClient the constructor was given
    ctorOptions,  \* the options the constructor was given
    defaults,     \* defaultRetryLimit, defaultRetryDelay, defaultTtl
    store,        \* the store's records
    now,          \* the clock
    pc,           \* where each caller's current call stands
    op,           \* "acquireLock" or "releaseLock"
    calls,        \* calls each caller has started
    budget,       \* calls the callers may start in all
    lockName,     \* argument of the current call
    given,        \* lockSpecificOptions of the current call
    opts,         \* retryLimit, retryDelay, ttl after getOptions
    key,          \* the derived key
    payload,      \* lockedSince of the payload
    attemptAt,    \* when the call sent its latest setNX
    reply,        \* the store's answer on its way to the caller
    lockApplied,
    counter,
    looping,      \* the pending applyLock is the one inside the while loop
    result,       \* "true", "false", "ok" or "error" once the call has ended
    err,          \* what the error names
    log,          \* the store commands and timers of the current call
    wins,         \* per key: setNX successes since the record was last removed
    trueReturns,  \* per key: acquireLock calls that returned true since then
    returnsSinceRelease
                  \* per key: acquireLock calls that returned true since
                  \* releaseLock was last called

storeVars == <<store, now>>
instVars == <<version, inst, client, ctorOptions, defaults>>
callVars == <<pc, op, calls, budget, lockName, given, opts, key, payload, attemptAt,
              reply,
              lockApplied, counter, looping, result, err, log>>
obsVars == <<wins, trueReturns, returnsSinceRelease>>
vars == <<storeVars, instVars, callVars, obsVars>>

NoOpts == [retryLimit |-> 0, retryDelay |-> 0, ttl |-> 0]

Start(limit) ==
    /\ version \in {1, 2}
    /\ inst = "none"
    /\ client = "undefined"
    /\ ctorOptions = NoOptions
    /\ defaults = BuiltinDefaults(version)
    /\ store = [k \in StoreKeys |-> Absent]
    /\ now = 0
    /\ pc = [p \in Callers |-> "idle"]
    /\ op = [p \in Callers |-> ""]
    /\ calls = [p \in Callers |-> 0]
    /\ budget = limit
    /\ lockName = [p \in Callers |-> Undef]
    /\ given = [p \in Callers |-> NoOptions]
    /\ opts = [p \in Callers |-> NoOpts]
    /\ key = [p \in Callers |-> ""]
    /\ payload = [p \in Callers |-> 0]
    /\ attemptAt = [p \in Callers |-> 0]
    /\ reply = [p \in Callers |-> ""]
    /\ lockApplied = [p \in Callers |-> FALSE]
    /\ counter = [p \in Callers |-> 0]
    /\ looping = [p \in Callers |-> FALSE]
    /\ result = [p \in Callers |-> ""]
    /\ err = [p \in Callers |-> ""]
    /\ log = [p \in Callers |-> <<>>]
    /\ wins = [k \in StoreKeys |-> 0]
    /\ trueReturns = [k \in StoreKeys |-> 0]
    /\ returnsSinceRelease = [k \in StoreKeys |-> 0]

Init == Start(MaxCalls)

(***************************************************************************)
(* new Lock(redisClient, options)                                          *)
(***************************************************************************)
New(redisClient, options) ==
    /\ inst = "none"
    /\ LET c == Construct(version, redisClient, options) IN
         /\ inst' = IF c.ok THEN "ready" ELSE "failed"
         /\ defaults' = c.defaults
    /\ client' = redisClient
    /\ ctorOptions' = options
    /\ UNCHANGED <<version, storeVars, callVars, obsVars>>

(***************************************************************************)
(* Pieces of applyLock and acquireLock.                                    *)
(***************************************************************************)
\* a plain SET in place of SETNX
SetNXOverwrites(rec) == TRUE

\* SETNX creates the record only if the key holds none
SetNXApplies(rec) == ~rec.present

\* every failure caught and ignored
NeverRejected(r) == FALSE

\* `await` of a store command throws when the command failed
Rejected(r) == r = "error"

\* the ttl alone decides
ShouldExpireIgnoringResult(ttl, applied) == ttl # 0

\* if (ttl !== 0 && lockApplied)      (variant 1: if (ttl && lockApplied))
ShouldExpire(ttl, applied) == ttl # 0 /\ applied

\* the ttl passed in milliseconds
ExpireCommandMs(k, ttl) == [key |-> k, ttl |-> ttl * 1000]

\* this.client.expire(key, ttl)
ExpireCommand(k, ttl) == [key |-> k, ttl |-> ttl]

\* one attempt too many
LoopContinuesOffByOne(applied, c, retryLimit) == ~applied /\ c <= retryLimit

\* while (!lockApplied && counter < retryLimit)
LoopContinues(applied, c, retryLimit) == ~applied /\ c < retryLimit

\* the increment forgotten
CounterStuck(c) == c

\* counter++
NextCounter(c) == c + 1

\* exhaustion reported as an error
ReturnOrThrow(applied) == IF applied THEN "true" ELSE "error"

\* return lockApplied
ReturnValue(applied) == IF applied THEN "true" ELSE "false"

\* the lock name passed in place of the key
DelCommandRaw(k, name) == name

\* this.client.del(key), where lockName is in scope as well
DelCommand(k, name) == k

Entry(o, k, a, r) == [op |-> o, key |-> k, arg |-> a, res |-> r]

RECURSIVE SumOver(_, _)
SumOver(f, S) ==
    IF S = {} THEN 0
    ELSE LET x == CHOOSE y \in S : TRUE IN f[x] + SumOver(f, S \ {x})

\* a caller starts a call when its previous one has ended
Idle(p) == pc[p] \in {"idle", "done"} /\ SumOver(calls, Callers) < budget

\* the call ends with an error
Throw(p, what) ==
    /\ pc' = [pc EXCEPT ![p] = "done"]
    /\ result' = [result EXCEPT ![p] = "error"]
    /\ err' = [err EXCEPT ![p] = what]

(***************************************************************************)
(* acquireLock up to its first await: getOptions, getRedisKey, the payload *)
(* and the first setNX on its way to the store.                            *)
(***************************************************************************)
AcquireLock(p, name, overrides) ==
    /\ inst = "ready"
    /\ Idle(p)
    /\ calls' = [calls EXCEPT ![p] = @ + 1]
    /\ op' = [op EXCEPT ![p] = "acquireLock"]
    /\ lockName' = [lockName EXCEPT ![p] = name]
    /\ given' = [given EXCEPT ![p] = overrides]
    /\ reply' = [reply EXCEPT ![p] = ""]
    /\ lockApplied' = [lockApplied EXCEPT ![p] = FALSE]
    /\ counter' = [counter EXCEPT ![p] = 0]
    /\ looping' = [looping EXCEPT ![p] = FALSE]
    /\ log' = [log EXCEPT ![p] = <<>>]
    /\ LET r == getOptions(version, defaults, overrides)
           k == getRedisKey(version, name)
       IN
         /\ opts' = [opts EXCEPT ![p] =
                       IF r.ok THEN [retryLimit |-> r.options.retryLimit.n,
                                     retryDelay |-> r.options.retryDelay.n,
                                     ttl |-> r.options.ttl.n]
                       ELSE NoOpts]
         /\ key' = [key EXCEPT ![p] = IF r.ok /\ k.ok THEN k.key ELSE ""]
         /\ payload' = [payload EXCEPT ![p] = IF r.ok /\ k.ok THEN now ELSE 0]
         /\ attemptAt' = [attemptAt EXCEPT ![p] = IF r.ok /\ k.ok THEN now ELSE 0]
         /\ IF ~r.ok THEN Throw(p, r.err)
            ELSE IF ~k.ok THEN Throw(p, "lockName")
            ELSE IF client = "null" THEN Throw(p, "client")
            ELSE /\ pc' = [pc EXCEPT ![p] = "setNX"]
                 /\ result' = [result EXCEPT ![p] = ""]
                 /\ err' = [err EXCEPT ![p] = ""]
    /\ UNCHANGED <<storeVars, instVars, budget, obsVars>>

(***************************************************************************)
(* The store processes SETNX key payload.                                  *)
(***************************************************************************)
StoreSetNX(p) ==
    /\ pc[p] = "setNX"
    /\ pc' = [pc EXCEPT ![p] = "setNXReply"]
    /\ \E fails \in BOOLEAN :
         IF fails
           THEN /\ reply' = [reply EXCEPT ![p] = "error"]
                /\ log' = [log EXCEPT ![p] =
                             Append(@, Entry("setNX", key[p], payload[p], "error"))]
                /\ UNCHANGED <<store, wins>>
           ELSE LET applied == SetNXApplies(store[key[p]]) IN
                /\ store' = IF applied
                              THEN [store EXCEPT ![key[p]] =
                                      [present |-> TRUE, payload |-> payload[p],
                                       expireAt |-> 0, by |-> <<p, calls[p]>>]]
                              ELSE store
                /\ wins' = IF applied THEN [wins EXCEPT ![key[p]] = @ + 1] ELSE wins
                /\ reply' = [reply EXCEPT ![p] = IF applied THEN "true" ELSE "false"]
                /\ log' = [log EXCEPT ![p] =
                             Append(@, Entry("setNX", key[p], payload[p],
                                             IF applied THEN "true" ELSE "false"))]
    /\ UNCHANGED <<now, instVars, op, calls, budget, attemptAt, lockName, given, opts, key, payload,
                   lockApplied, counter, looping, result, err, trueReturns,
                   returnsSinceRelease>>

(***************************************************************************)
(* applyLock has returned `applied` to acquireLock: count, then either     *)
(* start the delay before the next attempt or return.                      *)
(***************************************************************************)
AfterApply(p, applied) ==
    LET c == IF looping[p] THEN NextCounter(counter[p]) ELSE 0 IN
    /\ counter' = [counter EXCEPT ![p] = c]
    /\ IF LoopContinues(applied, c, opts[p].retryLimit)
         THEN /\ pc' = [pc EXCEPT ![p] = "sleep"]
              /\ looping' = [looping EXCEPT ![p] = TRUE]
              /\ log' = [log EXCEPT ![p] =
                           Append(@, Entry("sleep", "", opts[p].retryDelay, "ok"))]
              /\ UNCHANGED <<result, err, trueReturns, returnsSinceRelease>>
         ELSE /\ pc' = [pc EXCEPT ![p] = "done"]
              /\ result' = [result EXCEPT ![p] = ReturnValue(applied)]
              /\ trueReturns' = IF ReturnValue(applied) = "true"
                                  THEN [trueReturns EXCEPT ![key[p]] = @ + 1]
                                  ELSE trueReturns
              /\ returnsSinceRelease' =
                   IF ReturnValue(applied) = "true"
                     THEN [returnsSinceRelease EXCEPT ![key[p]] = @ + 1]
                     ELSE returnsSinceRelease
              /\ UNCHANGED <<looping, log, err>>

\* applyLock resumes on the reply to setNX
ResumeSetNX(p) ==
    /\ pc[p] = "setNXReply"
    /\ IF Rejected(reply[p])
         THEN /\ Throw(p, "store")
              /\ UNCHANGED <<lockApplied, counter, looping, log, trueReturns,
                             returnsSinceRelease>>
         ELSE LET applied == reply[p] = "true" IN
              /\ lockApplied' = [lockApplied EXCEPT ![p] = applied]
              /\ IF ShouldExpire(opts[p].ttl, applied)
                   THEN /\ pc' = [pc EXCEPT ![p] = "expire"]
                        /\ UNCHANGED <<counter, looping, log, result, err,
                                       trueReturns, returnsSinceRelease>>
                   ELSE AfterApply(p, applied)
    /\ UNCHANGED <<storeVars, instVars, op, calls, budget, attemptAt, lockName, given, opts, key,
                   payload, reply, wins>>

(***************************************************************************)
(* The store processes EXPIRE key ttl: it sets the expiry of whatever      *)
(* record the key holds by then, and does nothing when it holds none.      *)
(***************************************************************************)
StoreExpire(p) ==
    /\ pc[p] = "expire"
    /\ pc' = [pc EXCEPT ![p] = "expireReply"]
    /\ LET cmd == ExpireCommand(key[p], opts[p].ttl) IN
       \E fails \in BOOLEAN :
         IF fails
           THEN /\ reply' = [reply EXCEPT ![p] = "error"]
                /\ log' = [log EXCEPT ![p] =
                             Append(@, Entry("expire", cmd.key, cmd.ttl, "error"))]
                /\ UNCHANGED store
           ELSE /\ store' = IF store[cmd.key].present
                              THEN [store EXCEPT ![cmd.key].expireAt = now + cmd.ttl]
                              ELSE store
                /\ reply' = [reply EXCEPT ![p] = "ok"]
                /\ log' = [log EXCEPT ![p] =
                             Append(@, Entry("expire", cmd.key, cmd.ttl, "ok"))]
    /\ UNCHANGED <<now, instVars, op, calls, budget, attemptAt, lockName, given, opts, key, payload,
                   lockApplied, counter, looping, result, err, obsVars>>

\* applyLock resumes on the reply to expire and returns lockApplied
ResumeExpire(p) ==
    /\ pc[p] = "expireReply"
    /\ IF Rejected(reply[p])
         THEN /\ Throw(p, "store")
              /\ UNCHANGED <<counter, looping, log, trueReturns, returnsSinceRelease>>
         ELSE AfterApply(p, lockApplied[p])
    /\ UNCHANGED <<storeVars, instVars, op, calls, budget, attemptAt, lockName, given, opts, key,
                   payload, reply, lockApplied, wins>>

\* the timer of sleep(retryDelay) fires: the next applyLock sends its setNX
Wake(p) ==
    /\ pc[p] = "sleep"
    /\ Len(log[p]) < MaxLog
    /\ pc' = [pc EXCEPT ![p] = "setNX"]
    /\ attemptAt' = [attemptAt EXCEPT ![p] = now]
    /\ UNCHANGED <<storeVars, instVars, op, calls, budget, lockName, given, opts, key,
                   payload, reply, lockApplied, counter, looping, result, err,
                   log, obsVars>>

(***************************************************************************)
(* releaseLock: getRedisKey, then del.                                     *)
(***************************************************************************)
ReleaseLock(p, name) ==
    /\ inst = "ready"
    /\ Idle(p)
    /\ calls' = [calls EXCEPT ![p] = @ + 1]
    /\ op' = [op EXCEPT ![p] = "releaseLock"]
    /\ lockName' = [lockName EXCEPT ![p] = name]
    /\ given' = [given EXCEPT ![p] = NoOptions]
    /\ opts' = [opts EXCEPT ![p] = NoOpts]
    /\ payload' = [payload EXCEPT ![p] = 0]
    /\ attemptAt' = [attemptAt EXCEPT ![p] = 0]
    /\ reply' = [reply EXCEPT ![p] = ""]
    /\ lockApplied' = [lockApplied EXCEPT ![p] = FALSE]
    /\ counter' = [counter EXCEPT ![p] = 0]
    /\ looping' = [looping EXCEPT ![p] = FALSE]
    /\ log' = [log EXCEPT ![p] = <<>>]
    /\ LET k == getRedisKey(version, name) IN
         /\ key' = [key EXCEPT ![p] = IF k.ok THEN k.key ELSE ""]
         /\ returnsSinceRelease' =
              IF k.ok THEN [returnsSinceRelease EXCEPT ![k.key] = 0]
              ELSE returnsSinceRelease
         /\ IF ~k.ok THEN Throw(p, "lockName")
            ELSE IF client = "null" THEN Throw(p, "client")
            ELSE /\ pc' = [pc EXCEPT ![p] = "del"]
                 /\ result' = [result EXCEPT ![p] = ""]
                 /\ err' = [err EXCEPT ![p] = ""]
    /\ UNCHANGED <<storeVars, instVars, budget, wins, trueReturns>>

\* the store processes DEL key
StoreDel(p) ==
    /\ pc[p] = "del"
    /\ pc' = [pc EXCEPT ![p] = "delReply"]
    /\ LET k == DelCommand(key[p], lockName[p].s) IN
       \E fails \in BOOLEAN :
         IF fails
           THEN /\ reply' = [reply EXCEPT ![p] = "error"]
                /\ log' = [log EXCEPT ![p] = Append(@, Entry("del", k, 0, "error"))]
                /\ UNCHANGED <<store, wins, trueReturns>>
           ELSE /\ store' = [store EXCEPT ![k] = Absent]
                /\ wins' = IF store[k].present THEN [wins EXCEPT ![k] = 0] ELSE wins
                /\ trueReturns' = IF store[k].present
                                    THEN [trueReturns EXCEPT ![k] = 0]
                                    ELSE trueReturns
                /\ reply' = [reply EXCEPT ![p] = "ok"]
                /\ log' = [log EXCEPT ![p] = Append(@, Entry("del", k, 0, "ok"))]
    /\ UNCHANGED <<now, instVars, op, calls, budget, attemptAt, lockName, given, opts, key, payload,
                   lockApplied, counter, looping, result, err, returnsSinceRelease>>

\* releaseLock resumes on the reply to del
ResumeDel(p) ==
    /\ pc[p] = "delReply"
    /\ IF Rejected(reply[p])
         THEN Throw(p, "store")
         ELSE /\ pc' = [pc EXCEPT ![p] = "done"]
              /\ result' = [result EXCEPT ![p] = "ok"]
              /\ UNCHANGED err
    /\ UNCHANGED <<storeVars, instVars, op, calls, budget, attemptAt, lockName, given, opts, key,
                   payload, reply, lockApplied, counter, looping, log, obsVars>>

(***************************************************************************)
(* getOptions and getRedisKey called on their own: no await, the call ends *)
(* at once with the option set, the key, or the error.                     *)
(***************************************************************************)
GetOptions(p, overrides) ==
    /\ inst = "ready"
    /\ Idle(p)
    /\ calls' = [calls EXCEPT ![p] = @ + 1]
    /\ op' = [op EXCEPT ![p] = "getOptions"]
    /\ lockName' = [lockName EXCEPT ![p] = Undef]
    /\ given' = [given EXCEPT ![p] = overrides]
    /\ key' = [key EXCEPT ![p] = ""]
    /\ payload' = [payload EXCEPT ![p] = 0]
    /\ attemptAt' = [attemptAt EXCEPT ![p] = 0]
    /\ reply' = [reply EXCEPT ![p] = ""]
    /\ lockApplied' = [lockApplied EXCEPT ![p] = FALSE]
    /\ counter' = [counter EXCEPT ![p] = 0]
    /\ looping' = [looping EXCEPT ![p] = FALSE]
    /\ log' = [log EXCEPT ![p] = <<>>]
    /\ LET r == getOptions(version, defaults, overrides) IN
         /\ opts' = [opts EXCEPT ![p] =
                       IF r.ok THEN [retryLimit |-> r.options.retryLimit.n,
                                     retryDelay |-> r.options.retryDelay.n,
                                     ttl |-> r.options.ttl.n]
                       ELSE NoOpts]
         /\ IF ~r.ok THEN Throw(p, r.err)
            ELSE /\ pc' = [pc EXCEPT ![p] = "done"]
                 /\ result' = [result EXCEPT ![p] = "ok"]
                 /\ err' = [err EXCEPT ![p] = ""]
    /\ UNCHANGED <<storeVars, instVars, budget, obsVars>>

GetRedisKey(p, name) ==
    /\ inst = "ready"
    /\ Idle(p)
    /\ calls' = [calls EXCEPT ![p] = @ + 1]
    /\ op' = [op EXCEPT ![p] = "getRedisKey"]
    /\ lockName' = [lockName EXCEPT ![p] = name]
    /\ given' = [given EXCEPT ![p] = NoOptions]
    /\ opts' = [opts EXCEPT ![p] = NoOpts]
    /\ payload' = [payload EXCEPT ![p] = 0]
    /\ attemptAt' = [attemptAt EXCEPT ![p] = 0]
    /\ reply' = [reply EXCEPT ![p] = ""]
    /\ lockApplied' = [lockApplied EXCEPT ![p] = FALSE]
    /\ counter' = [counter EXCEPT ![p] = 0]
    /\ looping' = [looping EXCEPT ![p] = FALSE]
    /\ log' = [log EXCEPT ![p] = <<>>]
    /\ LET k == getRedisKey(version, name) IN
         /\ key' = [key EXCEPT ![p] = IF k.ok THEN k.key ELSE ""]
         /\ IF ~k.ok THEN Throw(p, "lockName")
            ELSE /\ pc' = [pc EXCEPT ![p] = "done"]
                 /\ result' = [result EXCEPT ![p] = "ok"]
                 /\ err' = [err EXCEPT ![p] = ""]
    /\ UNCHANGED <<storeVars, instVars, budget, obsVars>>

(***************************************************************************)
(* A second passes: the store removes the records whose expiry is reached. *)
(***************************************************************************)
Expired(rec, t) == rec.present /\ rec.expireAt # 0 /\ rec.expireAt <= t

Tick ==
    /\ now < MaxTime
    /\ now' = now + 1
    /\ store' = [k \in StoreKeys |->
                   IF Expired(store[k], now + 1) THEN Absent ELSE store[k]]
    /\ wins' = [k \in StoreKeys |->
                  IF Expired(store[k], now + 1) THEN 0 ELSE wins[k]]
    /\ trueReturns' = [k \in StoreKeys |->
                         IF Expired(store[k], now + 1) THEN 0 ELSE trueReturns[k]]
    /\ UNCHANGED <<instVars, callVars, returnsSinceRelease>>

Step(p) ==
    \/ StoreSetNX(p)
    \/ ResumeSetNX(p)
    \/ StoreExpire(p)
    \/ ResumeExpire(p)
    \/ Wake(p)
    \/ StoreDel(p)
    \/ ResumeDel(p)

NextOf(callers, clients, ctors, acquires, releases, previews, names) ==
    \/ \E c \in clients, o \in ctors : New(c, o)
    \/ \E p \in callers, i \in acquires : AcquireLock(p, i[1], i[2])
    \/ \E p \in callers, n \in releases : ReleaseLock(p, n)
    \/ \E p \in callers, o \in previews : GetOptions(p, o)
    \/ \E p \in callers, n \in names : GetRedisKey(p, n)
    \/ \E p \in callers : Step(p)
    \/ Tick

\* callers competing with valid arguments on an instance built with valid ones
Next == NextOf(Callers, {"valid"}, ValidCtorChoices, ValidAcquireInputs,
               ValidReleaseInputs, {NoOptions}, {Str("a")})

Spec == Init /\ [][Next]_vars

\* the store answers and the timers fire; nobody has to start a call and the
\* clock need not advance
LiveSpec == Spec /\ \A p \in Callers : WF_vars(Step(p))

\* callers competing for one lock name, with one more call to start
RaceAcquireInputs ==
    {<<Str("a"), NoOptions>>, <<Str("a"), Opt(Undef, Undef, Num(MaxTtl))>>}

InitRace == Start(MaxRaceCalls)

NextRace == NextOf(Callers, {"valid"}, ValidCtorChoices, RaceAcquireInputs,
                   {Str("a")}, {NoOptions}, {Str("a")})

SpecRace == InitRace /\ [][NextRace]_vars

\* one caller, every argument: valid or not
NextInputs == NextOf({"c1"}, Clients, CtorChoices,
                     AcquireInputs \cup AcquireInputsBothInvalid, ReleaseInputs,
                     PreviewInputs, ReleaseInputs)

SpecInputs == Init /\ [][NextInputs]_vars

(***************************************************************************)
(* Vocabulary of the properties.                                           *)
(***************************************************************************)
CallId(p) == <<p, calls[p]>>
Acquiring(p) == op[p] = "acquireLock"
Releasing(p) == op[p] = "releaseLock"
Ended(p) == pc[p] = "done"
LogOps(p, o) == {i \in 1..Len(log[p]) : log[p][i].op = o}
Attempts(p, r) == {i \in LogOps(p, "setNX") : log[p][i].res = r}
\* the key the lock name stands for
KeyOf(name) == "redis-promise-lock:" \o name
\* the record in the store is the one this caller's current call created
OwnRecord(p) ==
    /\ Acquiring(p)
    /\ key[p] # ""
    /\ store[key[p]].present
    /\ store[key[p]].by = CallId(p)
\* ... and that call has returned true
HolderReturned(p) == OwnRecord(p) /\ Ended(p) /\ result[p] = "true"

(***************************************************************************)
(* C1 (as amended): between two consecutive removals of a lock record at   *)
(* most one setNX attempt succeeds, whoever makes it: a key holds a record *)
(* exactly when one attempt succeeded since the last removal, so every     *)
(* other attempt made while the record exists got false; and every         *)
(* acquireLock call that returns true made exactly one successful attempt. *)
(***************************************************************************)
C1_AtMostOneWinner ==
    /\ \A k \in StoreKeys : wins[k] = IF store[k].present THEN 1 ELSE 0
    /\ \A p \in Callers :
         (Acquiring(p) /\ Ended(p) /\ result[p] = "true")
            => Cardinality(Attempts(p, "true")) = 1

\* C1 as stated: also at most one acquireLock call returns true between two
\* consecutive removals
C1_Original ==
    \A k \in StoreKeys : wins[k] <= 1 /\ trueReturns[k] <= 1

\* two callers attempted on one key while the record was there: one attempt
\* succeeded, the other got false
C1_Witness ==
    \E p, q \in Callers :
       /\ p # q
       /\ OwnRecord(p)
       /\ Acquiring(q) /\ key[q] = key[p]
       /\ Attempts(q, "false") # {}

(***************************************************************************)
(* C2 (as amended): once acquireLock(name) has returned true, and for as   *)
(* long as the record it created stays in the store, no other call's setNX *)
(* on that name succeeds: the record stays the holder's until it is        *)
(* removed, by releaseLock(name) or by the store's expiry.                 *)
(***************************************************************************)
C2_LockedUntilRemoved ==
    [][\A p \in Callers :
         HolderReturned(p) =>
            \/ ~store'[key[p]].present
            \/ /\ store'[key[p]].by = CallId(p)
               /\ store'[key[p]].payload = store[key[p]].payload]_vars

\* C2 as stated: no second acquireLock(name) returns true before
\* releaseLock(name) has been called
C2_Original ==
    \A k \in StoreKeys : returnsSinceRelease[k] <= 1

\* a caller holds the lock it was granted and another caller's acquireLock on
\* the same name has ended with false
C2_Witness ==
    \E p, q \in Callers :
       /\ p # q
       /\ HolderReturned(p)
       /\ Acquiring(q) /\ key[q] = key[p]
       /\ Ended(q) /\ result[q] = "false"

(***************************************************************************)
(* C3: an attempt whose setNX found the record already there leaves the    *)
(* store as it was (record, payload, expiry), is not followed by expire,   *)
(* and counts as false: the call sleeps before the next attempt or returns *)
(* false.                                                                  *)
(***************************************************************************)
C3_FailedAttemptTouchesNothing ==
    [][\A p \in Callers :
         /\ (pc[p] = "setNX" /\ pc'[p] = "setNXReply" /\ reply'[p] = "false")
               => store' = store
         /\ (pc[p] = "setNXReply" /\ reply[p] = "false" /\ pc'[p] # pc[p])
               => /\ pc'[p] \in {"sleep", "done"}
                  /\ lockApplied'[p] = FALSE
                  /\ LogOps(p, "expire")' = {}
                  /\ store' = store
                  /\ pc'[p] = "done" => result'[p] = "false"]_vars

\* a retry with ttl > 0 fails on a record that has an expiry still to come
C3_Witness ==
    \E p \in Callers :
       /\ pc[p] = "setNXReply" /\ reply[p] = "false"
       /\ looping[p]
       /\ opts[p].ttl > 0
       /\ store[key[p]].present
       /\ store[key[p]].expireAt > now

(***************************************************************************)
(* C4: an acquireLock with resolved ttl > 0 calls expire at most once, and *)
(* only right after its successful setNX, with the derived key and the     *)
(* resolved ttl; when it returns true it has called expire exactly once.   *)
(***************************************************************************)
C4_ExpireOnceAfterSuccess ==
    \A p \in Callers :
       (Acquiring(p) /\ opts[p].ttl > 0) =>
          /\ Cardinality(LogOps(p, "expire")) <= 1
          /\ \A i \in LogOps(p, "expire") :
                /\ i > 1
                /\ log[p][i - 1].op = "setNX" /\ log[p][i - 1].res = "true"
                /\ log[p][i].key = KeyOf(lockName[p].s)
                /\ log[p][i].arg = opts[p].ttl
          /\ (Ended(p) /\ result[p] = "true") =>
                /\ Cardinality(LogOps(p, "expire")) = 1
                /\ log[p][Len(log[p])].op = "expire"
                /\ log[p][Len(log[p])].res = "ok"

\* an acquireLock with ttl > 0 returned true after at least one failed attempt
C4_Witness ==
    \E p \in Callers :
       /\ Acquiring(p) /\ Ended(p) /\ result[p] = "true"
       /\ opts[p].ttl > 0
       /\ Attempts(p, "false") # {}
       /\ Cardinality(LogOps(p, "expire")) = 1

(***************************************************************************)
(* C5: with ttl 0, given to acquireLock or, when acquireLock is given no   *)
(* ttl, given to the constructor, acquiring never calls expire.            *)
(***************************************************************************)
TtlZeroAsked(p) ==
    \/ given[p].ttl = Num(0)
    \/ given[p].ttl = Undef /\ ctorOptions.ttl = Num(0)

C5_NoExpireWhenTtlZero ==
    \A p \in Callers :
       (Acquiring(p) /\ TtlZeroAsked(p)) =>
          LogOps(p, "expire") = {} /\ pc[p] \notin {"expire", "expireReply"}

\* the same, of the second variant of the class only
C5_SecondVariant == version = 2 => C5_NoExpireWhenTtlZero

(***************************************************************************)
(* C6: an acquireLock that returns true made N failed attempts, each       *)
(* followed by one delay of retryDelay, then the successful attempt, for   *)
(* some N <= retryLimit, and after it no further attempt (only the expire  *)
(* of C4 when ttl is not 0); one that returns false made retryLimit + 1    *)
(* attempts with a delay of retryDelay between any two of them.  The first *)
(* entry of the log is always an attempt, never a delay.                   *)
(***************************************************************************)
RECURSIVE FailedRounds(_, _, _, _)
FailedRounds(n, k, pay, delay) ==
    IF n = 0 THEN <<>>
    ELSE <<Entry("setNX", k, pay, "false"), Entry("sleep", "", delay, "ok")>>
           \o FailedRounds(n - 1, k, pay, delay)

SuccessfulRun(p, n) ==
    FailedRounds(n, KeyOf(lockName[p].s), payload[p], opts[p].retryDelay)
      \o <<Entry("setNX", KeyOf(lockName[p].s), payload[p], "true")>>
      \o (IF opts[p].ttl # 0
            THEN <<Entry("expire", KeyOf(lockName[p].s), opts[p].ttl, "ok")>>
            ELSE <<>>)

ExhaustedRun(p) ==
    FailedRounds(opts[p].retryLimit, KeyOf(lockName[p].s), payload[p],
                 opts[p].retryDelay)
      \o <<Entry("setNX", KeyOf(lockName[p].s), payload[p], "false")>>

C6_RetryCount ==
    \A p \in Callers :
       (Acquiring(p) /\ Ended(p)) =>
          /\ result[p] = "true" =>
                \E n \in 0..opts[p].retryLimit : log[p] = SuccessfulRun(p, n)
          /\ result[p] = "false" => log[p] = ExhaustedRun(p)

\* an acquireLock returned true on its last permitted attempt, after
\* retryLimit >= 2 failed ones
C6_Witness ==
    \E p \in Callers :
       /\ Acquiring(p) /\ Ended(p) /\ result[p] = "true"
       /\ opts[p].retryLimit >= 2
       /\ Cardinality(Attempts(p, "false")) = opts[p].retryLimit

(***************************************************************************)
(* C7: an acquireLock with a valid lock name and valid options, on an      *)
(* instance built with a client and valid options, none of whose store     *)
(* commands failed, ends with true or false, never with an error.          *)
(***************************************************************************)
ValidOption(x, lowest) == x = Undef \/ (x.t = "number" /\ x.n >= lowest)
ValidOptions(o) ==
    /\ ValidOption(o.retryLimit, 1)
    /\ ValidOption(o.retryDelay, 1)
    /\ ValidOption(o.ttl, 0)
ValidName(x) == x.t = "string" /\ x.s # ""
StoreFailed(p) == \E i \in 1..Len(log[p]) : log[p][i].res = "error"

C7_ContentionIsNoError ==
    \A p \in Callers :
       (/\ Acquiring(p) /\ Ended(p)
        /\ ValidName(lockName[p]) /\ ValidOptions(given[p])
        /\ client = "valid" /\ ValidOptions(ctorOptions)
        /\ ~StoreFailed(p))
          => result[p] \in {"true", "false"}

\* every attempt of an acquireLock found the lock held by another caller
C7_Witness ==
    \E p, q \in Callers :
       /\ p # q
       /\ OwnRecord(q)
       /\ Acquiring(p) /\ Ended(p) /\ key[p] = key[q]
       /\ result[p] = "false"
       /\ ~StoreFailed(p)

(***************************************************************************)
(* C8: a failed store command is the last thing its call does: nothing     *)
(* follows it in the call's log, no command and no timer of the call is    *)
(* pending after it, and the call ends with the store's error, never with  *)
(* true, false or a normal return.                                         *)
(***************************************************************************)
C8_StoreFailureEndsCall ==
    \A p \in Callers :
       \A i \in 1..Len(log[p]) :
          log[p][i].res = "error" =>
             /\ i = Len(log[p])
             /\ pc[p] \in {"setNXReply", "expireReply", "delReply", "done"}
             /\ Ended(p) => (result[p] = "error" /\ err[p] = "store")

\* an acquireLock ended with the store's error on a retry
C8_Witness ==
    \E p \in Callers :
       /\ Acquiring(p) /\ Ended(p) /\ result[p] = "error"
       /\ Len(log[p]) >= 3
       /\ log[p][Len(log[p])].res = "error"

(***************************************************************************)
(* C9: releaseLock(name) sends one del, of the key of that name, and       *)
(* nothing else; the store then holds no record under that key, whoever    *)
(* created it, and is otherwise unchanged (so deleting an absent record    *)
(* changes nothing); the call ends without error.                          *)
(***************************************************************************)
C9_ReleaseDeletesTheKey ==
    [][\A p \in Callers :
         /\ (pc[p] = "del" /\ pc'[p] = "delReply" /\ reply'[p] = "ok")
               => /\ store' = [store EXCEPT ![KeyOf(lockName[p].s)] = Absent]
                  /\ log'[p] = <<Entry("del", KeyOf(lockName[p].s), 0, "ok")>>
         /\ (pc[p] = "delReply" /\ reply[p] = "ok" /\ pc'[p] # pc[p])
               => /\ pc'[p] = "done"
                  /\ result'[p] = "ok"
                  /\ log'[p] = log[p]
                  /\ store' = store]_vars

\* the del of one caller has removed the record another caller's acquireLock
\* created without an expiry
C9_Witness ==
    \E p, q \in Callers :
       /\ p # q
       /\ Releasing(p) /\ pc[p] = "delReply" /\ reply[p] = "ok"
       /\ Acquiring(q) /\ key[q] = key[p]
       /\ Attempts(q, "true") # {} /\ opts[q].ttl = 0
       /\ ~store[key[p]].present

(***************************************************************************)
(* C10: every acquireLock that has started ends: with true, with false or  *)
(* with an error.                                                          *)
(***************************************************************************)
C10_AcquireTerminates ==
    \A p \in Callers :
       (Acquiring(p) /\ ~Ended(p)) ~> (Acquiring(p) /\ Ended(p))

\* an acquireLock used up all its attempts while another caller kept the lock
C10_Witness ==
    \E p, q \in Callers :
       /\ p # q
       /\ HolderReturned(q)
       /\ Acquiring(p) /\ Ended(p) /\ key[p] = key[q]
       /\ result[p] = "false"
       /\ Cardinality(Attempts(p, "false")) = MaxRetry + 1

(***************************************************************************)
(* C11 (as amended): a call of getRedisKey, acquireLock or releaseLock     *)
(* with a lock name that is missing, empty or not a string ends at once    *)
(* with an error, has issued no setNX, expire or del, and leaves the store *)
(* as it was.  The error is the invalid-lock-name error, except that       *)
(* acquireLock resolves its options first: when they are invalid too, it   *)
(* is the error of the option.                                             *)
(***************************************************************************)
NameTaking(o) == o \in {"getRedisKey", "acquireLock", "releaseLock"}
OptionErrors == {"retryLimit", "retryDelay", "ttl"}

OptionFields == {"retryLimit", "retryDelay", "ttl"}
\* the lowest valid number of each option
Lowest(f) == IF f = "ttl" THEN 0 ELSE 1
\* a supplied value that is not a number in the option's range
InvalidSupplied(x, f) == x # Undef /\ ~(x.t = "number" /\ x.n >= Lowest(f))
\* the call has run getOptions on given[p]
Resolving(p) == op[p] \in {"getOptions", "acquireLock"}
DefaultsValid ==
    \A f \in OptionFields :
       defaults[f].t = "number" /\ defaults[f].n >= Lowest(f)

(***************************************************************************)
(* C12: on an instance with valid defaults, getOptions given a valid       *)
(* partial option set returns (no error of an option) a complete set in    *)
(* which each supplied field has the supplied value, ttl 0 included, and   *)
(* each omitted field the instance default.                                *)
(***************************************************************************)
C12_SuppliedKeptOmittedDefault ==
    \A p \in Callers :
       (Resolving(p) /\ ValidOptions(given[p]) /\ DefaultsValid) =>
          /\ err[p] \notin OptionFields
          /\ \A f \in OptionFields :
                opts[p][f] = IF given[p][f] # Undef THEN given[p][f].n
                             ELSE defaults[f].n

\* the same, of the second variant of the class only
C12_SecondVariant == version = 2 => C12_SuppliedKeptOmittedDefault

(***************************************************************************)
(* C13: getOptions, called on its own or by acquireLock, given an option   *)
(* set with an invalid supplied field, ends with the error naming an       *)
(* invalid supplied field: it returns no option set and acquireLock issues *)
(* no store call.                                                          *)
(***************************************************************************)
C13_InvalidOptionRejected ==
    \A p \in Callers :
       (Resolving(p) /\ \E f \in OptionFields : InvalidSupplied(given[p][f], f)) =>
          /\ Ended(p) /\ result[p] = "error"
          /\ err[p] \in {f \in OptionFields : InvalidSupplied(given[p][f], f)}
          /\ log[p] = <<>>

\* the same, of the second variant of the class only
C13_SecondVariant == version = 2 => C13_InvalidOptionRejected

(***************************************************************************)
(* C14: a constructor given undefined or null as the store reference       *)
(* fails: no instance exists afterwards.                                   *)
(***************************************************************************)
C14_NoInstanceWithoutClient ==
    (inst # "none" /\ client \in {"undefined", "null"}) => inst = "failed"

\* the same, of the first variant of the class only
C14_FirstVariant == version = 1 => C14_NoInstanceWithoutClient

(***************************************************************************)
(* C15: a constructor given an invalid option fails, so the defaults of    *)
(* every instance are numbers with retryLimit > 0, retryDelay > 0 and      *)
(* ttl >= 0.                                                               *)
(***************************************************************************)
C15_InstanceDefaultsValid ==
    inst = "ready" =>
       /\ \A f \in OptionFields : ~InvalidSupplied(ctorOptions[f], f)
       /\ DefaultsValid

\* the same, of the second variant of the class only
C15_SecondVariant == version = 2 => C15_InstanceDefaultsValid

(***************************************************************************)
(* C16: after construction with valid options the instance default of each *)
(* field is the supplied value (ttl 0 included) or, the field omitted, the *)
(* built-in default; getOptions() returns exactly these values and         *)
(* acquireLock without overrides runs with them.                           *)
(***************************************************************************)
C16_CtorOptionsBecomeDefaults ==
    (inst = "ready" /\ ValidOptions(ctorOptions)) =>
       \A f \in OptionFields :
          LET d == IF ctorOptions[f] # Undef THEN ctorOptions[f]
                   ELSE BuiltinDefaults(version)[f]
          IN /\ defaults[f] = d
             /\ \A p \in Callers :
                   (Resolving(p) /\ given[p] = NoOptions) =>
                      (err[p] \notin OptionFields /\ opts[p][f] = d.n)

\* the same, of the second variant of the class only
C16_SecondVariant == version = 2 => C16_CtorOptionsBecomeDefaults

(***************************************************************************)
(* C17: on a Lock constructed without options, getOptions() returns        *)
(* retryLimit 10, retryDelay 100 and ttl 3, and acquireLock without        *)
(* overrides makes at most 11 attempts, every delay between two attempts   *)
(* is 100 and every expire sets a ttl of 3.                                *)
(***************************************************************************)
C17_BuiltinDefaults ==
    (inst = "ready" /\ ctorOptions = NoOptions) =>
       /\ defaults = Opt(Num(10), Num(100), Num(3))
       /\ \A p \in Callers :
             (Resolving(p) /\ given[p] = NoOptions) =>
                /\ opts[p] = [retryLimit |-> 10, retryDelay |-> 100, ttl |-> 3]
                /\ Cardinality(LogOps(p, "setNX")) <= 11
                /\ \A i \in LogOps(p, "sleep") : log[p][i].arg = 100
                /\ \A i \in LogOps(p, "expire") : log[p][i].arg = 3

\* the same, of the second variant of the class only
C17_SecondVariant == version = 2 => C17_BuiltinDefaults

\* an acquireLock with the built-in defaults has made all its 11 attempts
C17_AllAttempts ==
    \E p \in Callers :
       /\ ctorOptions = NoOptions /\ given[p] = NoOptions
       /\ Acquiring(p) /\ Ended(p) /\ result[p] = "false"
       /\ Cardinality(LogOps(p, "setNX")) = 11

(***************************************************************************)
(* C18: the expire command of an acquireLock call changes no record but    *)
(* the one that call's own setNX created: it never sets or moves the       *)
(* expiry of a record another call created, so a record created with ttl 0 *)
(* never gets an expiry.                                                   *)
(***************************************************************************)
C18_ExpireOnlyOwnRecord ==
    [][\A p \in Callers : \A k \in StoreKeys :
         (pc[p] = "expire" /\ pc'[p] = "expireReply" /\ store'[k] # store[k])
            => store[k].by = CallId(p)]_vars

\* the expire of one call has given an expiry to the record another call
\* created with ttl 0
C18_StrangerExpiry ==
    \E p, q \in Callers :
       /\ p # q
       /\ pc[p] = "expireReply" /\ reply[p] = "ok"
       /\ Acquiring(q) /\ opts[q].ttl = 0 /\ key[q] = key[p]
       /\ store[key[q]].present
       /\ store[key[q]].by = CallId(q)
       /\ store[key[q]].expireAt # 0

(***************************************************************************)
(* C19: the acquireLock call that created a record found in the store has  *)
(* returned true or is still running; it has not ended with false or with  *)
(* an error.                                                               *)
(***************************************************************************)
C19_RecordHasBeliever ==
    \A k \in StoreKeys : \A p \in Callers :
       (store[k].present /\ store[k].by = CallId(p))
          => (~Ended(p) \/ result[p] = "true")

(***************************************************************************)
(* C20: a record created by an acquireLock call with ttl > 0 does not stay *)
(* in the store without an expiry: once the creating call has ended,       *)
(* however it ended, the record has one (and the store removes it when the *)
(* time has come) or is gone.                                              *)
(***************************************************************************)
C20_RecordGetsExpiry ==
    \A k \in StoreKeys : \A p \in Callers :
       (/\ store[k].present /\ store[k].by = CallId(p)
        /\ opts[p].ttl > 0
        /\ Ended(p))
          => store[k].expireAt # 0

(***************************************************************************)
(* C21: once the instance is constructed, no step changes its defaults,    *)
(* its client or the instance itself, whatever the call and however it     *)
(* ends; and whenever getOptions runs without overrides on valid defaults, *)
(* alone or inside acquireLock, it returns exactly the instance defaults,  *)
(* whatever overrides earlier calls were given.                            *)
(***************************************************************************)
DefaultNumbers ==
    [retryLimit |-> defaults.retryLimit.n,
     retryDelay |-> defaults.retryDelay.n,
     ttl |-> defaults.ttl.n]

C21_DefaultsNeverChange ==
    [][/\ inst = "ready" =>
             (inst' = "ready" /\ defaults' = defaults /\ client' = client)
       /\ \A p \in Callers :
             (/\ calls'[p] # calls[p]
              /\ op'[p] \in {"getOptions", "acquireLock"}
              /\ given'[p] = NoOptions
              /\ DefaultsValid)
                => (err'[p] \notin OptionFields /\ opts'[p] = DefaultNumbers)]_vars

\* getOptions() returns the instance defaults, ttl 0 among them, after an
\* acquireLock that overrode the ttl: its record, with an expiry, is still in
\* the store
C21_Witness ==
    \E p \in Callers :
       /\ calls[p] = 2 /\ op[p] = "getOptions" /\ given[p] = NoOptions
       /\ result[p] = "ok"
       /\ defaults.ttl = Num(0) /\ opts[p].ttl = 0
       /\ \E k \in StoreKeys :
             /\ store[k].present
             /\ store[k].by = <<p, 1>>
             /\ store[k].expireAt # 0

(***************************************************************************)
(* C23: distinct lock names have distinct keys, and every store command of *)
(* acquireLock(a) and releaseLock(a) names the key of a: a step of such a  *)
(* call changes no record under another key (it neither creates nor        *)
(* deletes it nor changes its expiry), and whether its setNX succeeds is   *)
(* decided by the record under the key of a alone.                         *)
(***************************************************************************)
C23_NamesAreIndependent ==
    [][/\ \A m, n \in LockNames : KeyOf(m) = KeyOf(n) => m = n
       /\ \A p \in Callers :
             (pc[p] \in {"setNX", "expire", "del"} /\ pc'[p] # pc[p]) =>
                LET a == KeyOf(lockName[p].s) IN
                /\ \A k \in StoreKeys \ {a} : store'[k] = store[k]
                /\ log'[p][Len(log'[p])].key = a
                /\ (pc[p] = "setNX" /\ reply'[p] # "error")
                      => (reply'[p] = "true" <=> ~store[a].present)]_vars

\* one caller has been granted lock a while another caller holds lock b
C23_Witness ==
    \E p, q \in Callers :
       /\ p # q
       /\ HolderReturned(p) /\ lockName[p] = Str("a")
       /\ HolderReturned(q) /\ lockName[q] = Str("b")

(***************************************************************************)
(* C22: the lockedSince of a record is the time at which the call that     *)
(* created it sent the setNX that created it, on the first attempt as on a *)
(* retry.                                                                  *)
(***************************************************************************)
C22_LockedSinceIsAttemptTime ==
    \A p \in Callers :
       OwnRecord(p) => store[key[p]].payload = attemptAt[p]

\* the same, of the records created by a call's first attempt only
C22_FirstAttempt ==
    \A p \in Callers :
       (OwnRecord(p) /\ ~looping[p]) => store[key[p]].payload = attemptAt[p]

=============================================================================
